---- MODULE Spec2Model ----
(***************************************************************************)
(* Model of one run of the convertible-bond portfolio application:         *)
(* PortfolioAnalyzer.run_full_analysis (src/portfolio_analyzer.py), which  *)
(* loads and enriches the position table (src/data_loader.py,              *)
(* src/api_bloomberg.py), runs PortfolioCalculator.calculate_all_metrics   *)
(* over it (src/portfolio_calculator.py), keeps a complete copy, filters   *)
(* the working table and aggregates it.                                    *)
(*                                                                         *)
(* Representation                                                          *)
(*   - a text cell is a sequence of one-character strings, so that         *)
(*     str.strip() and str.upper() are computed, not assumed;              *)
(*   - a numeric cell is an exact extended rational <<n, d>>, d >= 0, in   *)
(*     lowest terms: d > 0 is the number n/d, <<0,0>> is NaN (a missing    *)
(*     cell), <<1,0>> and <<-1,0>> are +inf and -inf (what a float         *)
(*     division by zero yields).  Arithmetic is exact: binary rounding of  *)
(*     IEEE doubles is not modelled;                                       *)
(*   - a categorical cell (bucket label, region, style) is a string, with  *)
(*     NoLabel for a missing category;                                     *)
(*   - a ticker or a reference-data cell is a sequence of text pieces, so  *)
(*     that appending ' Equity' is computed;                               *)
(*   - None (self.df, self.df_complete before they are assigned) is the    *)
(*     empty sequence, and the results mapping is <<>> until it exists and *)
(*     a one-element sequence holding the mapping afterwards.              *)
(***************************************************************************)
EXTENDS Integers, Sequences, FiniteSets, TLC

VARIABLES
    pc,            \* position of the run inside run_full_analysis
    files,         \* the rows of the four input sources
    df_input,      \* the table load_portfolio_data returned to the analyzer
    df,            \* self.df, the working table
    has_sp_lt,     \* the input carries the secondary rating column
    rating_final,  \* calculator.rating_final
    df_complete,   \* self.df_complete
    results,       \* the mapping run_full_analysis returns
    error,         \* the exception travelling up, "none" when there is none
    fetch_status,  \* outcome of the batch reference-data call
    session,       \* the reference-data session
    requests,      \* the requests sent to the reference-data service, in order
    stops          \* how many times the session was stopped

vars == <<pc, files, df_input, df, has_sp_lt, rating_final, df_complete, results,
          error, fetch_status, session, requests, stops>>

(***************************************************************************)
(* Text cells                                                              *)
(***************************************************************************)
NA == <<"<NA>">>          \* a missing text cell (None / NaN): pd.isna is true

NoLabel == "<NaN>"        \* a missing categorical cell

isna(val) == val = NA

LowerChars == <<"a","b","c","d","e","f","g","h","i","j","k","l","m",
                "n","o","p","q","r","s","t","u","v","w","x","y","z">>

UpperChars == <<"A","B","C","D","E","F","G","H","I","J","K","L","M",
                "N","O","P","Q","R","S","T","U","V","W","X","Y","Z">>

upper_char(c) ==
    IF \E i \in 1..Len(LowerChars) : LowerChars[i] = c
    THEN UpperChars[CHOOSE i \in 1..Len(LowerChars) : LowerChars[i] = c]
    ELSE c

\* str.upper()
upper(s) == [i \in 1..Len(s) |-> upper_char(s[i])]

is_space(c) == c \in {" ", "\t", "\n"}

RECURSIVE lstrip(_)
lstrip(s) == IF s # <<>> /\ is_space(Head(s)) THEN lstrip(Tail(s)) ELSE s

RECURSIVE rstrip(_)
rstrip(s) ==
    IF s # <<>> /\ is_space(s[Len(s)]) THEN rstrip(SubSeq(s, 1, Len(s) - 1)) ELSE s

\* str.strip()
strip(s) == rstrip(lstrip(s))

(***************************************************************************)
(* Numeric cells: exact extended rationals                                 *)
(***************************************************************************)
NaN == <<0, 0>>

PosInf == <<1, 0>>

NegInf == <<-1, 0>>

IsNaN(x) == x[1] = 0 /\ x[2] = 0

AbsInt(n) == IF n < 0 THEN -n ELSE n

SgnInt(n) == IF n < 0 THEN -1 ELSE IF n > 0 THEN 1 ELSE 0

RECURSIVE Gcd(_, _)
Gcd(a, b) == IF b = 0 THEN a ELSE Gcd(b, a % b)

\* lowest terms, positive denominator; n/0 becomes NaN, +inf or -inf
Norm(n, d) ==
    IF d = 0 THEN <<SgnInt(n), 0>>
    ELSE LET g == Gcd(AbsInt(n), AbsInt(d))
         IN  <<(SgnInt(d) * n) \div g, AbsInt(d) \div g>>

Num(n) == <<n, 1>>

IsInf(x) == x[2] = 0 /\ x[1] # 0

Mul(a, b) == IF IsNaN(a) \/ IsNaN(b) THEN NaN ELSE Norm(a[1] * b[1], a[2] * b[2])

Add(a, b) ==
    IF IsNaN(a) \/ IsNaN(b) THEN NaN
    ELSE IF IsInf(a) /\ IsInf(b) THEN (IF a = b THEN a ELSE NaN)
    ELSE Norm(a[1] * b[2] + b[1] * a[2], a[2] * b[2])

Neg(a) == <<-a[1], a[2]>>

Sub(a, b) == Add(a, Neg(b))

\* 1 / b as a float computes it: 1 / 0 is +inf, 1 / inf is 0
Inv(b) ==
    IF IsNaN(b) THEN NaN
    ELSE IF b[1] = 0 THEN PosInf
    ELSE IF b[1] < 0 THEN <<-b[2], -b[1]>>
    ELSE <<b[2], b[1]>>

\* float division: x / 0 is +-inf, 0 / 0 is NaN, no exception
Div(a, b) == Mul(a, Inv(b))

Abs(a) == <<AbsInt(a[1]), a[2]>>

Cls(a) == IF a[2] = 0 THEN a[1] ELSE 0

\* a < b; every comparison with NaN is false
Lt(a, b) ==
    /\ ~IsNaN(a)
    /\ ~IsNaN(b)
    /\ IF Cls(a) # Cls(b) THEN Cls(a) < Cls(b)
       ELSE IF a[2] = 0 THEN FALSE
       ELSE a[1] * b[2] < b[1] * a[2]

Le(a, b) == ~IsNaN(a) /\ ~IsNaN(b) /\ (a = b \/ Lt(a, b))

\* a missing value left as it is
Mut_fillna0_keep(x) == x

fillna0(x) == IF IsNaN(x) THEN Num(0) ELSE x

\* Series.sum(): NaN cells are skipped, an empty sum is 0
RECURSIVE SumSeq(_)
SumSeq(xs) ==
    IF xs = <<>> THEN Num(0)
    ELSE Add(fillna0(Head(xs)), SumSeq(Tail(xs)))

(***************************************************************************)
(* Lookup tables of PortfolioCalculator.__init__                           *)
(***************************************************************************)
\* keys of sp_rating_to_number in insertion order; the value of a key is its
\* position: "AAA" -> 1, ..., "D" -> 22
sp_rating_to_number ==
    << <<"A","A","A">>, <<"A","A","+">>, <<"A","A">>, <<"A","A","-">>,
       <<"A","+">>, <<"A">>, <<"A","-">>,
       <<"B","B","B","+">>, <<"B","B","B">>, <<"B","B","B","-">>,
       <<"B","B","+">>, <<"B","B">>, <<"B","B","-">>,
       <<"B","+">>, <<"B">>, <<"B","-">>,
       <<"C","C","C","+">>, <<"C","C","C">>, <<"C","C","C","-">>,
       <<"C","C">>, <<"C">>, <<"D">> >>

Ranks == 1..Len(sp_rating_to_number)

Grades == {sp_rating_to_number[i] : i \in Ranks}

\* Series.map(sp_rating_to_number): the rank of a key, NaN for any other text
RatingChiffreOf(s) ==
    IF s \in Grades
    THEN Num(CHOOSE i \in Ranks : sp_rating_to_number[i] = s)
    ELSE NaN

ig_ratings ==
    { <<"A","A","A">>, <<"A","A","A","-">>, <<"A","A","+">>, <<"A","A">>,
      <<"A","A","-">>, <<"A","+">>, <<"A">>, <<"A","-">>,
      <<"B","B","B","+">>, <<"B","B","B">>, <<"B","B","B","-">> }

TxtNR == <<"N","R">>

TxtCASH == <<"C","A","S","H">>

TxtD == <<"D">>

\* the list of _is_valid_rating, compared with the stripped, upper-cased text
InvalidRatings ==
    { <<>>, <<"N","R">>, <<"#","N","/","A">>, <<"N","A","N">>, <<"N","O","N","E">> }

\* delta_par_defaut.get(security_type, fallback)
delta_par_defaut(sec, fallback) ==
    CASE sec \in {"Common Stocks", "Warrants"} -> Num(1)
      [] sec \in {"Corporate Bonds", "Currency Forwards", "Open-End Funds", "Cash"} -> Num(0)
      [] OTHER -> fallback

\* Series.map(pays_vers_region): a missing category for an unmapped code
pays_vers_region(c) ==
    CASE c \in {"BE","DE","ES","FR","GB","IT","LU","NL","EU","CH"} -> "Europe"
      [] c \in {"CA","US"} -> "America"
      [] c \in {"CN","KR","NZ","TW","HK"} -> "Asia Ex-Jap"
      [] c = "MX" -> "Others"
      [] c = "JP" -> "Japan"
      [] OTHER -> NoLabel

\* Series.map(Sector_vers_Style)
Sector_vers_Style(s) ==
    CASE s \in {"Technology", "HealthCare", "Communications"} -> "Growth"
      [] s \in {"Basic Materials", "Industrial", "Energy", "Consumer, Cyclical"} -> "Cyclical"
      [] s \in {"Financial", "Utilities", "Consumer, Non-cyclical"} -> "Value"
      [] OTHER -> NoLabel

(***************************************************************************)
(* pd.cut                                                                  *)
(***************************************************************************)
\* ndarray.searchsorted(x, side): the number of bins below x ("left": strictly)
searchsorted(bins, x, side) ==
    Cardinality({i \in 1..Len(bins) :
                    IF side = "left" THEN Lt(bins[i], x) ELSE Le(bins[i], x)})

\* pd.cut(x, bins, labels, right, include_lowest) for one cell
cut(x, bins, labels, right, include_lowest) ==
    LET ids0 == searchsorted(bins, x, IF right THEN "left" ELSE "right")
        ids  == IF include_lowest /\ x = bins[1] THEN 1 ELSE ids0
    IN  IF IsNaN(x) \/ ids = Len(bins) \/ ids = 0 THEN NoLabel ELSE labels[ids]

bins_equity == <<Num(0), Norm(25, 100), Norm(50, 100), Norm(75, 100), Norm(11, 10)>>

labels_equity == <<"Bucket 0-25", "Bucket 25-50", "Bucket 50-75", "Bucket 75-100">>

bins_vol == <<NegInf, Num(20), Num(30), Num(40), PosInf>>

labels_vol == <<"<20%", "20-30%", "30-40%", ">40%">>

bins_mat == <<NegInf, Num(1), Num(3), Num(5), PosInf>>

\* the labels of labels_mat, written in ASCII ('a' for the accented letter)
labels_mat == <<"<1 An", "1 a 3 Ans", "3 a 5 Ans", ">5 Ans">>

SensiBucketOf(x) == cut(x, bins_equity, labels_equity, TRUE, TRUE)

\* the volatility intervals closed on the right instead of on the left
Mut_VolBucketOf_right_closed(x) == cut(x, bins_vol, labels_vol, TRUE, FALSE)

VolBucketOf(x) == cut(x, bins_vol, labels_vol, FALSE, FALSE)

\* the maturity intervals closed on the right instead of on the left
Mut_MaturityBucketOf_right_closed(x) == cut(x, bins_mat, labels_mat, TRUE, FALSE)

MaturityBucketOf(x) == cut(x, bins_mat, labels_mat, FALSE, FALSE)

\* the years-to-maturity forced on cash rows: 0.003
CashYearsToMat == Norm(3, 1000)

(***************************************************************************)
(* Rating resolution                                                       *)
(***************************************************************************)
_is_valid_rating(val) ==
    IF isna(val) THEN FALSE
    ELSE upper(strip(val)) \notin InvalidRatings

\* the cascade with the internal rating consulted before the secondary field
Mut_assign_rating_internal_first(row, has_col) ==
    IF _is_valid_rating(row.SP) THEN strip(row.SP)
    ELSE IF _is_valid_rating(row.Rating) THEN strip(row.Rating)
    ELSE IF has_col /\ _is_valid_rating(row.SPLT) THEN strip(row.SPLT)
    ELSE TxtNR

\* has_col: "S&P LT Foreign Currency Issuer Credit Rating" in row.index
_assign_rating_improved(row, has_col) ==
    IF _is_valid_rating(row.SP) THEN strip(row.SP)
    ELSE IF has_col /\ _is_valid_rating(row.SPLT) THEN strip(row.SPLT)
    ELSE IF _is_valid_rating(row.Rating) THEN strip(row.Rating)
    ELSE TxtNR

\* the rating step without the cash override
Mut_CashRatingOverride_off(row, rating) == rating

\* df.loc[df['Security Type'] == 'Cash', 'S&P Ajusted'] = 'CASH'
CashRatingOverride(row, rating) ==
    IF row.SecurityType = "Cash" THEN TxtCASH ELSE rating

\* the category with only 'NR' counted as not rated
Mut_CreditCategoryOf_default_high_yield(row, rating) ==
    IF row.SecurityType = "Cash" THEN "Cash"
    ELSE IF rating \in ig_ratings THEN "Investment Grade"
    ELSE IF rating # TxtNR THEN "High Yield"
    ELSE "Not Rated"

CreditCategoryOf(row, rating) ==
    IF row.SecurityType = "Cash" THEN "Cash"
    ELSE IF rating \in ig_ratings THEN "Investment Grade"
    ELSE IF rating \notin {TxtNR, TxtD} THEN "High Yield"
    ELSE "Not Rated"

BondLike == {"Corporate Bonds", "Convertible Bonds"}

\* a contribution that counts a rating without rank as the last rank
Mut_ContribRatingChiffre_unranked_last(row) ==
    IF IsNaN(row.RatingChiffre)
    THEN Div(Mul(Num(Len(sp_rating_to_number)), row.MarketValue), Num(100))
    ELSE Div(Mul(row.RatingChiffre, row.MarketValue), Num(100))

\* df_filtre["Contrib Rating Chiffre"] of a row
ContribRatingChiffre(row) == Div(Mul(row.RatingChiffre, row.MarketValue), Num(100))

\* the contribution of the first bond-like row alone instead of the sum
Mut_FundRatingChiffre_first_row(t) ==
    LET df_filtre == SelectSeq(t, LAMBDA r : r.SecurityType \in BondLike)
    IN  IF Len(df_filtre) = 0 THEN Num(0) ELSE ContribRatingChiffre(df_filtre[1])

\* df_filtre["Contrib Rating Chiffre"].sum() over the bond-like rows
FundRatingChiffre(t) ==
    LET df_filtre == SelectSeq(t, LAMBDA r : r.SecurityType \in BondLike)
    IN  SumSeq([i \in 1..Len(df_filtre) |-> ContribRatingChiffre(df_filtre[i])])

\* min(number_to_sp_rating.keys(), key=lambda x: abs(x - v)): the first key,
\* in insertion (ascending) order, whose distance to v is minimal
closest_number(v) ==
    LET dist(x) == Abs(Sub(Num(x), v))
    IN  CHOOSE x \in Ranks :
            /\ \A y \in Ranks : ~Lt(dist(y), dist(x))
            /\ \A y \in Ranks : y < x => Lt(dist(x), dist(y))

number_to_sp_rating(n) == sp_rating_to_number[n]

(***************************************************************************)
(* Steps of calculate_all_metrics, each a transform of one row (the        *)
(* column assignments are row-wise) or of the whole table                  *)
(***************************************************************************)
ManualCorrectionRow(r) ==
    LET r1 == IF r.ISIN = "US06744EDH71"
              THEN [r EXCEPT !.ShortName = "MICROSOFT", !.Sector = "Technology",
                             !.Cntry = "US", !.EqtyTicker = <<"MSFT US">>]
              ELSE r
        r2 == IF r1.ISIN = "US29446YAC03" THEN [r1 EXCEPT !.EqtyTicker = <<"EQX US">>] ELSE r1
    IN  IF r2.ISIN \in {"FR001400R1R6", "FR001400M9F9"} THEN [r2 EXCEPT !.Cntry = "FR"] ELSE r2

RatingRow(r, has_col) ==
    LET adj == CashRatingOverride(r, _assign_rating_improved(r, has_col))
    IN  [r EXCEPT !.SPAjusted = adj,
                  !.RatingChiffre = RatingChiffreOf(adj),
                  !.CreditCategory = CreditCategoryOf(r, adj)]

\* the per-type default whether or not the row carries a delta
Mut_DeltaOrDefault_always(sec, delta) == delta_par_defaut(sec, delta)

\* the delta used: the per-type default only when the delta is missing
DeltaOrDefault(sec, delta) ==
    IF IsNaN(delta) THEN delta_par_defaut(sec, delta) ELSE delta

\* the delta itself, the premium ignored
Mut_SensiOf_no_premium(delta, prem) == delta

\* delta / (1 + premium / 100)
SensiOf(delta, prem) == Div(delta, Add(Num(1), Div(prem, Num(100))))

ContribPct(x, mv) == Div(Mul(x, mv), Num(100))

\* the supplied interest sensitivity kept for every security type
Mut_InterestSensitivityOf_keep(r) == r.InterestSensitivity

\* df["Interest Sensitivity"] of a row
InterestSensitivityOf(r) ==
    IF r.SecurityType # "Convertible Bonds" THEN Mul(r.OAD, Num(-1))
    ELSE r.InterestSensitivity

\* df["Credit Sensitivity"] of a row
CreditSensitivityOf(r) ==
    IF r.SecurityType # "Convertible Bonds" THEN Mul(r.OAC, Num(-1))
    ELSE r.CreditSensitivity

SensitivityRow(r) ==
    LET delta  == DeltaOrDefault(r.SecurityType, r.Delta)
        sensi  == SensiOf(delta, r.Prem)
        deltaX == DeltaOrDefault(r.SecurityType, r.DeltaXCV)
        sensiX == SensiOf(deltaX, r.PremXCV)
        conv   == r.SecurityType = "Convertible Bonds"
        effdur == IF ~conv THEN r.ModDur ELSE r.EffectiveDuration
        taux   == InterestSensitivityOf(r)
        cred   == CreditSensitivityOf(r)
    IN  [r EXCEPT !.Delta = delta,
                  !.SensiEquity = sensi,
                  !.ContribSensiEquity = Mul(fillna0(sensi), fillna0(r.MarketValue)),
                  !.DeltaXCV = deltaX,
                  !.SensiEquityXCV = sensiX,
                  !.ContribSensiEquityXCV = Mul(fillna0(sensiX), fillna0(r.MarketValue)),
                  !.contrib_modified_duration = ContribPct(r.ModDur, r.MarketValue),
                  !.EffectiveDuration = effdur,
                  !.contrib_effective_duration = ContribPct(effdur, r.MarketValue),
                  !.InterestSensitivity = taux,
                  !.contrib_taux_sensi = ContribPct(taux, r.MarketValue),
                  !.CreditSensitivity = cred,
                  !.contrib_credit_sensi = ContribPct(cred, r.MarketValue),
                  !.contrib_implied_spread = ContribPct(r.ImpliedSpread, r.MarketValue)]

BucketRow(r) ==
    [r EXCEPT !.SensiBucket = SensiBucketOf(r.SensiEquity),
              !.VolBucket = VolBucketOf(r.ImpliedVol),
              !.MaturityBucket = MaturityBucketOf(r.YearsToMat)]

\* a region that also looks at the security type
Mut_RegionRow_cash_blank(r) ==
    [r EXCEPT !.Region = IF r.SecurityType = "Cash" THEN NoLabel
                         ELSE pays_vers_region(r.Cntry)]

RegionRow(r) == [r EXCEPT !.Region = pays_vers_region(r.Cntry)]

StyleRow(r) == [r EXCEPT !.Style = Sector_vers_Style(r.IndustrySector)]

\* the final maturity bucketing without the cash override
Mut_YearsToMatOf_no_override(r) == r.YearsToMat

\* the years-to-maturity a row carries into the final maturity bucketing
YearsToMatOf(r) == IF r.SecurityType = "Cash" THEN CashYearsToMat ELSE r.YearsToMat

MaturityRow(r) ==
    LET ytm == YearsToMatOf(r)
    IN  [r EXCEPT !.YearsToMat = ytm, !.MaturityBucket = MaturityBucketOf(ytm)]

(***************************************************************************)
(* DataLoader.load_portfolio_data: the four sources, their merge, the      *)
(* reference-data enrichment                                               *)
(***************************************************************************)
\* the required input sources, in the order they are read
Sources == <<"portfolio", "themes", "ovcv_data", "ratings">>

\* Series.astype(str) of a ticker cell: a missing cell becomes the text 'nan'
astype_str(v) == IF isna(v) THEN <<"nan">> ELSE v

\* the ticker of a convertible gets ' Equity' appended
PrepareTickerRow(r) ==
    IF r.SecurityType = "Convertible Bonds"
    THEN [r EXCEPT !.EqtyTicker = astype_str(r.EqtyTicker) \o <<" Equity">>]
    ELSE r

\* the distinct tickers sent to the reference-data service
tickers_to_fetch(t) ==
    {t[i].EqtyTicker : i \in 1..Len(t)} \ {NA, <<"nan", " Equity">>}

\* what the service answers for one ticker
ReferenceFields == [EXPECTED_REPORT_DT |-> <<"2026-01-15">>, EXPECTED_REPORT_TIME |-> <<"Aft-mkt">>]

\* the securities the service does not know: its answer for them carries a
\* security error and no field
UnknownSecurities == { <<"UNK US", " Equity">> }

\* a request that carries the tickers of the convertibles only
Mut_RequestOf_equity_suffix(tickers) ==
    {strip(t) : t \in {u \in tickers : strip(u) # <<>> /\ u[Len(u)] = " Equity"}}

\* the securities of the request: every non-blank ticker, stripped
RequestOf(tickers) == {strip(t) : t \in {u \in tickers : strip(u) # <<>>}}

\* a service call that fails as a whole when it does not know a security
Mut_fetch_batch_data_unknown_fails(tickers, outcome) ==
    [t \in (IF outcome = "ok" /\ RequestOf(tickers) \cap UnknownSecurities = {}
            THEN RequestOf(tickers) ELSE {}) |-> ReferenceFields]

\* BloombergDataFetcher.fetch_batch_data: the mapping ticker -> fields when
\* the request and the response loop succeed (an empty mapping of fields for
\* a security the service does not know); when either raises, the exception
\* is caught, logged, and the empty mapping is returned
fetch_batch_data(tickers, outcome) ==
    [t \in (IF outcome = "ok" THEN RequestOf(tickers) ELSE {}) |->
        IF t \in UnknownSecurities THEN <<>> ELSE ReferenceFields]

\* dict.get(key): None when the key is absent
dict_get(d, key) == IF key \in DOMAIN d THEN d[key] ELSE NA

\* the two reference columns of a row: None when its ticker is not a key
ApplyReferenceRow(r, bloomberg_data) ==
    LET fields == IF r.EqtyTicker \in DOMAIN bloomberg_data
                  THEN bloomberg_data[r.EqtyTicker] ELSE <<>>
    IN  [r EXCEPT !.EXPECTED_REPORT_DT = dict_get(fields, "EXPECTED_REPORT_DT"),
                  !.EXPECTED_REPORT_TIME = dict_get(fields, "EXPECTED_REPORT_TIME")]

\* f"{value}" of a reference cell
format_cell(v) == IF isna(v) THEN <<"None">> ELSE v

\* DataLoader._create_earning_column (the time cell is compared as a whole)
_create_earning_column(r) ==
    IF /\ ~isna(r.EXPECTED_REPORT_TIME)
       /\ r.EXPECTED_REPORT_TIME # <<"#N/A N/A">>
       /\ r.EXPECTED_REPORT_TIME # <<>>
    THEN format_cell(r.EXPECTED_REPORT_DT) \o <<" ">> \o r.EXPECTED_REPORT_TIME
    ELSE format_cell(r.EXPECTED_REPORT_DT)

EarningRow(r) == [r EXCEPT !.EARNING = _create_earning_column(r)]

\* a datetime cell: <<yyyymmdd>>, or NaT
NaT == <<>>

\* pd.to_datetime(cell, errors="coerce"): a date cell <<year, month, day>>
\* becomes a datetime, anything else (missing, text that is no date) NaT
to_datetime(v) ==
    IF /\ Len(v) = 3
       /\ \A k \in 1..3 : v[k] \in Nat
       /\ v[2] \in 1..12
       /\ v[3] \in 1..31
    THEN <<v[1] * 10000 + v[2] * 100 + v[3]>>
    ELSE NaT

\* datetime a sorts strictly before datetime b (ascending, NaT last)
DateBefore(a, b) == a # NaT /\ (b = NaT \/ a[1] < b[1])

\* the reorderings of a table of n rows
Perms(n) == {p \in [1..n -> 1..n] : \A i, j \in 1..n : p[i] = p[j] => i = j}

\* the orders sort_values("Rating Date") can give: ascending dates, then the
\* NaT rows in table order; the order of rows with equal dates is left to
\* the sorting algorithm
SortOrders(t) ==
    {p \in Perms(Len(t)) :
        \A i, j \in 1..Len(t) :
            i < j => /\ ~DateBefore(t[p[j]].RatingDate, t[p[i]].RatingDate)
                     /\ (t[p[i]].RatingDate = NaT /\ t[p[j]].RatingDate = NaT) => p[i] < p[j]}

\* drop_duplicates("ISIN", keep="last"): the last row of every identifier
drop_duplicates_keep_last(t) ==
    LET idx == SelectSeq([i \in 1..Len(t) |-> i],
                         LAMBDA i : \A j \in (i + 1)..Len(t) : t[j].ISIN # t[i].ISIN)
    IN  [k \in 1..Len(idx) |-> t[idx[k]]]

\* the ratings source with its three columns kept and its dates parsed
ParsedRatings(rows) ==
    [i \in 1..Len(rows) |->
        [ISIN |-> rows[i].ISIN, Rating |-> rows[i].Rating,
         RatingDate |-> to_datetime(rows[i].RatingDate)]]

\* DataLoader._load_internal_ratings on the rows of the ratings source, for
\* the sort order p: the three columns kept, the date parsed, the rows
\* sorted by date, the last row of every identifier kept
_load_internal_ratings(rows, p) ==
    drop_duplicates_keep_last([i \in 1..Len(rows) |-> ParsedRatings(rows)[p[i]]])

\* df["ISIN"] = df["Ticker"].str[:-5]: the ticker <<identifier, sector>>
\* without its five-character market sector (' Corp')
ISINOfTicker(ticker) ==
    IF Len(ticker) = 2 /\ ticker[2] \in {" Corp", " Govt", " Mtge"} THEN ticker[1]
    ELSE NoLabel

\* DataLoader._load_ovcv_data: the analytics rows with their identifier (the
\* columns no later step reads are left out)
_load_ovcv_data(rows) ==
    [i \in 1..Len(rows) |-> [ISIN |-> ISINOfTicker(rows[i].Ticker)] @@ rows[i]]

RECURSIVE Concat(_)
\* the tables of a sequence, one after the other
Concat(tables) ==
    IF tables = <<>> THEN <<>> ELSE Head(tables) \o Concat(Tail(tables))

\* left.merge(right, on="ISIN", how="left"): every left row, in order, once
\* per right row of the same identifier, and once with missing right columns
\* when there is none
left_merge(left, right, nulls) ==
    Concat([i \in 1..Len(left) |->
              LET m == SelectSeq(right, LAMBDA r : r.ISIN = left[i].ISIN)
              IN  IF m = <<>> THEN <<nulls @@ left[i]>>
                  ELSE [k \in 1..Len(m) |-> m[k] @@ left[i]]])

\* the columns the analytics source adds, missing
NullData ==
    [Ticker |-> NA, DeltaXCV |-> NaN, PremXCV |-> NaN, ImpliedSpread |-> NaN,
     ImpliedVol |-> NaN, InterestSensitivity |-> NaN, CreditSensitivity |-> NaN,
     EffectiveDuration |-> NaN]

\* DataLoader._merge_all_data
_merge_all_data(df_port, df_themes, df_data, df_ratings) ==
    LET themes == [i \in 1..Len(df_themes) |->
                     [ISIN |-> df_themes[i].ISIN, Theme |-> df_themes[i].Theme]]
        m1 == left_merge(df_port, themes, [Theme |-> NoLabel])
        m2 == left_merge(m1, df_data, NullData)
        m3 == left_merge(m2, df_ratings, [Rating |-> NA, RatingDate |-> NaT])
    IN  [i \in 1..Len(m3) |->
            [SPAjusted |-> IF isna(m3[i].SP) THEN m3[i].Rating ELSE m3[i].SP] @@ m3[i]]

\* a loader that logs the error of an unreadable source and carries on with
\* the merge instead of re-raising
Mut_LoadPortfolioData_swallow ==
    /\ pc = "start"
    /\ \/ \E k \in 1..Len(Sources) : error' = Sources[k]
       \/ UNCHANGED error
    /\ \E p \in SortOrders(ParsedRatings(files.ratings)) :
          df' = _merge_all_data(files.portfolio, files.themes,
                                _load_ovcv_data(files.ovcv_data),
                                _load_internal_ratings(files.ratings, p))
    /\ pc' = "merged"
    /\ UNCHANGED <<files, df_input, has_sp_lt, rating_final, df_complete, results,
                   fetch_status, session, requests, stops>>

\* reading a source raises (file missing or unreadable): the loader logs and
\* re-raises, nothing is merged or fetched; or the four sources are read and
\* merged
LoadPortfolioData ==
    /\ pc = "start"
    /\ \/ \E k \in 1..Len(Sources) :
             /\ error' = Sources[k]
             /\ pc' = "failing"
             /\ UNCHANGED df
       \/ /\ \E p \in SortOrders(ParsedRatings(files.ratings)) :
                df' = _merge_all_data(files.portfolio, files.themes,
                                      _load_ovcv_data(files.ovcv_data),
                                      _load_internal_ratings(files.ratings, p))
          /\ pc' = "merged"
          /\ UNCHANGED error
    /\ UNCHANGED <<files, df_input, has_sp_lt, rating_final, df_complete, results,
                   fetch_status, session, requests, stops>>

\* _enrich_with_bloomberg_data.  The one request carries every ticker to
\* fetch; a failing call raises while the request is built or sent, or while
\* the answer is read, after the request went out.
\* With no ticker to fetch nothing is requested
\* and the two reference columns are never created, so building EARNING
\* raises KeyError on the first row; on a table without rows the outcome of
\* assigning the empty apply() result depends on the pandas build.
EnrichWithBloombergData ==
    /\ pc = "merged"
    /\ LET prepared == [i \in 1..Len(df) |-> PrepareTickerRow(df[i])]
           tickers  == tickers_to_fetch(prepared)
       IN  \/ /\ tickers # {}
              /\ \E outcome \in {"ok", "failed"} :
                    LET bloomberg_data == fetch_batch_data(tickers, outcome)
                        enriched == [i \in 1..Len(prepared) |->
                                       EarningRow(ApplyReferenceRow(prepared[i], bloomberg_data))]
                    IN  /\ fetch_status' = outcome
                        /\ df' = enriched
                        /\ df_input' = enriched
                        /\ \/ requests' = Append(requests, RequestOf(tickers))
                           \/ /\ outcome = "failed"
                              /\ UNCHANGED requests
              /\ pc' = "loaded"
              /\ UNCHANGED error
           \/ /\ tickers = {}
              /\ Len(df) = 0
              /\ df' = prepared
              /\ df_input' = prepared
              /\ pc' = "loaded"
              /\ UNCHANGED <<error, fetch_status, requests>>
           \/ /\ tickers = {}
              /\ error' = "EARNING"
              /\ pc' = "failing"
              /\ df' = <<>>
              /\ UNCHANGED <<df_input, fetch_status, requests>>
    /\ UNCHANGED <<files, has_sp_lt, rating_final, df_complete, results, session, stops>>

(***************************************************************************)
(* Actions: calculate_all_metrics runs its steps once, in this order.       *)
(* df_input is the caller's table: calculate_all_metrics works on a copy   *)
(* (df = df.copy()), so the steps never change it.                         *)
(***************************************************************************)
ApplyManualCorrections ==
    /\ pc = "loaded"
    /\ df' = [i \in 1..Len(df) |-> ManualCorrectionRow(df[i])]
    /\ pc' = "corrected"
    /\ UNCHANGED <<files, df_input, has_sp_lt, rating_final, df_complete, results,
                   error, fetch_status, session, requests, stops>>

CalculateRatings ==
    /\ pc = "corrected"
    /\ LET rated == [i \in 1..Len(df) |-> RatingRow(df[i], has_sp_lt)]
       IN  /\ df' = rated
           /\ rating_final' = number_to_sp_rating(closest_number(FundRatingChiffre(rated)))
    /\ pc' = "ratings"
    /\ UNCHANGED <<files, df_input, has_sp_lt, df_complete, results, error, fetch_status,
                   session, requests, stops>>

CalculateSensitivities ==
    /\ pc = "ratings"
    /\ df' = [i \in 1..Len(df) |-> SensitivityRow(df[i])]
    /\ pc' = "sensitivities"
    /\ UNCHANGED <<files, df_input, has_sp_lt, rating_final, df_complete, results,
                   error, fetch_status, session, requests, stops>>

CalculateBuckets ==
    /\ pc = "sensitivities"
    /\ df' = [i \in 1..Len(df) |-> BucketRow(df[i])]
    /\ pc' = "buckets"
    /\ UNCHANGED <<files, df_input, has_sp_lt, rating_final, df_complete, results,
                   error, fetch_status, session, requests, stops>>

\* a region step that drops the rows whose country has no region
Mut_CalculateRegions_dropna ==
    /\ pc = "buckets"
    /\ df' = SelectSeq([i \in 1..Len(df) |-> RegionRow(df[i])],
                       LAMBDA r : r.Region # NoLabel)
    /\ pc' = "regions"
    /\ UNCHANGED <<files, df_input, has_sp_lt, rating_final, df_complete, results,
                   error, fetch_status, session, requests, stops>>

CalculateRegions ==
    /\ pc = "buckets"
    /\ df' = [i \in 1..Len(df) |-> RegionRow(df[i])]
    /\ pc' = "regions"
    /\ UNCHANGED <<files, df_input, has_sp_lt, rating_final, df_complete, results,
                   error, fetch_status, session, requests, stops>>

\* _calculate_asset computes a local summary and returns the table untouched
CalculateAsset ==
    /\ pc = "regions"
    /\ pc' = "asset"
    /\ UNCHANGED <<files, df_input, df, has_sp_lt, rating_final, df_complete, results,
                   error, fetch_status, session, requests, stops>>

CalculateStyle ==
    /\ pc = "asset"
    /\ df' = [i \in 1..Len(df) |-> StyleRow(df[i])]
    /\ pc' = "style"
    /\ UNCHANGED <<files, df_input, has_sp_lt, rating_final, df_complete, results,
                   error, fetch_status, session, requests, stops>>

CalculateMaturityBuckets ==
    /\ pc = "style"
    /\ df' = [i \in 1..Len(df) |-> MaturityRow(df[i])]
    /\ pc' = "done"
    /\ UNCHANGED <<files, df_input, has_sp_lt, rating_final, df_complete, results,
                   error, fetch_status, session, requests, stops>>

(***************************************************************************)
(* PortfolioAnalyzer: the tables of _calculate_aggregated_metrics          *)
(***************************************************************************)
\* config['settings']['top_holdings'] of the run (10 in the default
\* configuration; any positive integer can be configured)
top_holdings == 2

types_autorises == {"Convertible Bonds", "Common Stocks", "Warrants"}

types_top_holdings ==
    {"Convertible Bonds", "Corporate Bonds", "Open-End Funds", "Warrants", "Common Stocks"}

types_credit == {"Corporate Bonds", "Convertible Bonds", "Cash"}

\* calculator.ordre_sp (its order is not modelled)
ordre_sp == Grades \cup ig_ratings \cup {TxtNR}

\* a column of a table
Column(t, col) == [i \in 1..Len(t) |-> t[i][col]]

\* n/d rounded to the nearest integer, halves to the even one (d > 0)
RoundHalfEven(n, d) ==
    LET q == n \div d
        r == n - q * d
    IN  IF 2 * r < d THEN q
        ELSE IF 2 * r > d THEN q + 1
        ELSE IF q % 2 = 0 THEN q ELSE q + 1

\* DataFrame.round(2) of a numeric cell
round2(x) == IF x[2] = 0 THEN x ELSE Norm(RoundHalfEven(100 * x[1], x[2]), 100)

\* Series.count(): the number of non-missing cells
CountSeq(vals) == Cardinality({i \in 1..Len(vals) : ~IsNaN(vals[i])})

\* row i comes before row j in nlargest order: larger value first, equal
\* values in table order, missing values last
Before(vals, i, j) ==
    IF IsNaN(vals[i]) THEN IsNaN(vals[j]) /\ i < j
    ELSE IF IsNaN(vals[j]) THEN TRUE
    ELSE Lt(vals[j], vals[i]) \/ (vals[i] = vals[j] /\ i < j)

\* the whole table in nlargest order, whatever n is
Mut_nlargest_all(t, n, col) ==
    LET vals == Column(t, col)
        pos(i) == 1 + Cardinality({j \in 1..Len(t) : Before(vals, j, i)})
    IN  [k \in 1..Len(t) |-> t[CHOOSE i \in 1..Len(t) : pos(i) = k]]

\* DataFrame.nlargest(n, col): the n rows with the largest values, fewer when
\* the table is shorter
nlargest(t, n, col) ==
    LET vals == Column(t, col)
        pos(i) == 1 + Cardinality({j \in 1..Len(t) : Before(vals, j, i)})
        m == IF n < Len(t) THEN n ELSE Len(t)
    IN  [k \in 1..m |-> t[CHOOSE i \in 1..Len(t) : pos(i) = k]]

\* the top_10 rows followed by the 'TOTAL' row, rounded
TopTable(top_10, col) ==
    LET total == SumSeq(Column(top_10, col))
        shown == [k \in 1..Len(top_10) |->
                    [LongName |-> top_10[k].LongName, ShortName |-> top_10[k].ShortName,
                     Value |-> round2(top_10[k][col])]]
    IN  Append(shown, [LongName |-> "TOTAL", ShortName |-> "", Value |-> round2(total)])

_get_top_holdings(t) ==
    LET df_filtered == SelectSeq(t, LAMBDA r : r.SecurityType \in types_top_holdings)
    IN  TopTable(nlargest(df_filtered, top_holdings, "MarketValue"), "MarketValue")

_get_top_contributors(t) ==
    TopTable(nlargest(t, top_holdings, "ContribSensiEquity"), "ContribSensiEquity")

\* the values of the rows whose key is k
GroupValues(keys, vals, k) ==
    LET idx == SelectSeq([i \in 1..Len(keys) |-> i], LAMBDA i : keys[i] = k)
    IN  [j \in 1..Len(idx) |-> vals[idx[j]]]

\* groupby(key): one group per distinct key; rows whose key is missing are
\* in no group (dropna=True is the default)
GroupKeys(keys, missing) == {keys[i] : i \in 1..Len(keys)} \ {missing}

\* groupby(key)[col].sum().reset_index().round(2), as key -> total
groupby_sum(keys, vals, missing) ==
    [k \in GroupKeys(keys, missing) |-> round2(SumSeq(GroupValues(keys, vals, k)))]

\* groupby(key).agg(sum, count).reset_index().round(2), as key -> row
groupby_agg(keys, vals, missing) ==
    [k \in GroupKeys(keys, missing) |->
        [Total |-> round2(SumSeq(GroupValues(keys, vals, k))),
         Number_of_positions |-> CountSeq(GroupValues(keys, vals, k))]]

\* the key of a row in the maturity-and-rating view: missing when either
\* part is missing
MaturityRatingKey(r) ==
    IF r.MaturityBucket = NoLabel \/ isna(r.SPAjusted) THEN <<>>
    ELSE <<r.MaturityBucket, r.SPAjusted>>

\* pd.Categorical(values, categories): a value outside the categories
\* becomes a missing label, its row stays
categorical(v, categories) == IF v \in categories THEN v ELSE NA

\* _calculate_credit_metrics, computed from the complete table.  A table is
\* the mapping group key -> row; the display order of its rows and the
\* head(10) of the issuer view (at most MaxRows issuers here) are not
\* modelled.
_calculate_credit_metrics(complete) ==
    LET df_credit == SelectSeq(complete, LAMBDA r : r.SecurityType \in types_credit)
        df_credit_rated == SelectSeq(df_credit, LAMBDA r : r.SecurityType # "Cash")
        poids_par_rating ==
            groupby_agg(Column(df_credit_rated, "SPAjusted"),
                        Column(df_credit_rated, "MarketValue"), NA)
        maturity_rating ==
            groupby_agg([i \in 1..Len(df_credit) |-> MaturityRatingKey(df_credit[i])],
                        Column(df_credit, "MarketValue"), <<>>)
    IN  [by_category |->
            groupby_agg(Column(df_credit, "CreditCategory"),
                        Column(df_credit, "MarketValue"), NoLabel),
         by_rating |->
            [k \in DOMAIN poids_par_rating |->
                [Label |-> categorical(k, ordre_sp),
                 Total |-> poids_par_rating[k].Total,
                 Number_of_positions |-> poids_par_rating[k].Number_of_positions]],
         by_issuer |->
            groupby_sum(Column(df_credit_rated, "Issuer"),
                        Column(df_credit_rated, "MarketValue"), NoLabel),
         by_maturity |->
            groupby_agg(Column(df_credit, "MaturityBucket"),
                        Column(df_credit, "MarketValue"), NoLabel),
         by_maturity_rating |->
            [k \in DOMAIN maturity_rating |->
                [Label |-> categorical(k[2], ordre_sp \cup {TxtCASH}),
                 Total |-> maturity_rating[k].Total,
                 Number_of_positions |-> maturity_rating[k].Number_of_positions]]]

\* _aggregate_by_theme_name: the rows contributing more than 1, per theme,
\* largest first
_aggregate_by_theme_name(t) ==
    LET df_filtre == SelectSeq(t, LAMBDA r : Lt(Num(1), r.ContribSensiEquity))
    IN  [k \in GroupKeys(Column(df_filtre, "Theme"), NoLabel) |->
            LET g == SelectSeq(df_filtre, LAMBDA r : r.Theme = k)
                sorted == nlargest(g, Len(g), "ContribSensiEquity")
            IN  [j \in 1..Len(sorted) |->
                    [ShortName |-> sorted[j].ShortName,
                     Value |-> round2(sorted[j].ContribSensiEquity)]]]

\* _calculate_aggregated_metrics over the working table t, the complete
\* table and the calculator's fund rating
_calculate_aggregated_metrics(t, complete, rating) ==
    LET contrib == Column(t, "ContribSensiEquity")
    IN  [holding |-> Len(t),
         contrib_equity_sensi |-> SumSeq(contrib),
         contrib_equity_sensi_xcv |-> SumSeq(Column(t, "ContribSensiEquityXCV")),
         premium |-> SumSeq([i \in 1..Len(t) |-> ContribPct(t[i].Prem, t[i].MarketValue)]),
         contrib_duration |-> SumSeq(Column(t, "OADcntr")),
         contrib_taux_sensi |-> SumSeq(Column(t, "contrib_taux_sensi")),
         contrib_credit_sensi |-> SumSeq(Column(t, "contrib_credit_sensi")),
         modified_duration |-> SumSeq(Column(t, "contrib_modified_duration")),
         effective_duration |-> SumSeq(Column(t, "contrib_effective_duration")),
         credit_spread |-> SumSeq(Column(t, "contrib_implied_spread")),
         credit_analysis |-> _calculate_credit_metrics(complete),
         rating |-> rating,
         top_10_holdings |-> _get_top_holdings(t),
         top_10_contrib_equity |-> _get_top_contributors(t),
         contrib_by_sector |-> groupby_sum(Column(t, "IndustrySector"), contrib, NoLabel),
         contrib_by_region |-> groupby_sum(Column(t, "Region"), contrib, NoLabel),
         contrib_by_theme |-> groupby_sum(Column(t, "Theme"), contrib, NoLabel),
         contrib_by_style |-> groupby_sum(Column(t, "Style"), contrib, NoLabel),
         contrib_by_sensi_bucket |-> groupby_agg(Column(t, "SensiBucket"), contrib, NoLabel),
         contrib_by_vol_bucket |-> groupby_agg(Column(t, "VolBucket"), contrib, NoLabel),
         contrib_by_theme_name |-> _aggregate_by_theme_name(t)]

(***************************************************************************)
(* Actions: the rest of run_full_analysis                                  *)
(***************************************************************************)
\* the complete copy taken from the table already filtered
Mut_CopyComplete_filtered ==
    /\ pc = "done"
    /\ df_complete' = SelectSeq(df, LAMBDA r : r.SecurityType \in types_autorises)
    /\ pc' = "copied"
    /\ UNCHANGED <<files, df_input, df, has_sp_lt, rating_final, results, error,
                   fetch_status, session, requests, stops>>

\* self.df_complete = self.df.copy()
CopyComplete ==
    /\ pc = "done"
    /\ df_complete' = df
    /\ pc' = "copied"
    /\ UNCHANGED <<files, df_input, df, has_sp_lt, rating_final, results, error,
                   fetch_status, session, requests, stops>>

\* a run that aggregates the complete table
Mut_FilterTypes_keep_all ==
    /\ pc = "copied"
    /\ df' = df
    /\ pc' = "filtered"
    /\ UNCHANGED <<files, df_input, has_sp_lt, rating_final, df_complete, results, error,
                   fetch_status, session, requests, stops>>

\* self.df = self.df[self.df["Security Type"].isin(types_autorises)]
FilterTypes ==
    /\ pc = "copied"
    /\ df' = SelectSeq(df, LAMBDA r : r.SecurityType \in types_autorises)
    /\ pc' = "filtered"
    /\ UNCHANGED <<files, df_input, has_sp_lt, rating_final, df_complete, results, error,
                   fetch_status, session, requests, stops>>

CalculateAggregatedMetrics ==
    /\ pc = "filtered"
    /\ results' = <<_calculate_aggregated_metrics(df, df_complete, rating_final)>>
    /\ pc' = "aggregated"
    /\ UNCHANGED <<files, df_input, df, has_sp_lt, rating_final, df_complete, error,
                   fetch_status, session, requests, stops>>

\* a run that stops the session at the end of the try block only
Mut_CloseBloombergConnection_on_success ==
    /\ pc \in {"aggregated", "failing"}
    /\ session' = IF pc = "aggregated" THEN "closed" ELSE session
    /\ stops' = IF pc = "aggregated" THEN stops + 1 ELSE stops
    /\ pc' = IF pc = "aggregated" THEN "returned" ELSE "raised"
    /\ UNCHANGED <<files, df_input, df, has_sp_lt, rating_final, df_complete, results,
                   error, fetch_status, requests>>

\* the finally clause: the session is stopped whether the run returns its
\* results or re-raises the error
CloseBloombergConnection ==
    /\ pc \in {"aggregated", "failing"}
    /\ session' = "closed"
    /\ stops' = stops + 1
    /\ pc' = IF pc = "aggregated" THEN "returned" ELSE "raised"
    /\ UNCHANGED <<files, df_input, df, has_sp_lt, rating_final, df_complete, results,
                   error, fetch_status, requests>>

Next ==
    \/ LoadPortfolioData
    \/ EnrichWithBloombergData
    \/ ApplyManualCorrections
    \/ CalculateRatings
    \/ CalculateSensitivities
    \/ CalculateBuckets
    \/ CalculateRegions
    \/ CalculateAsset
    \/ CalculateStyle
    \/ CalculateMaturityBuckets
    \/ CopyComplete
    \/ FilterTypes
    \/ CalculateAggregatedMetrics
    \/ CloseBloombergConnection

(***************************************************************************)
(* Input tables: what load_portfolio_data can hand to the calculator       *)
(***************************************************************************)
MaxRows == 3              \* longest multi-row table explored

\* a merged row before any metric is computed; 'S&P Ajusted' is what
\* _merge_all_data left there, the other derived columns do not exist yet
NewRow(isin, sec, sp, splt, rating, mv) ==
    [ISIN |-> isin, ShortName |-> "NAME", Sector |-> "Industrial", Cntry |-> "US",
     EqtyTicker |-> <<"TCK US">>, IndustrySector |-> "Industrial",
     LongName |-> isin, Theme |-> "Cloud", Issuer |-> "ISSUER A", OADcntr |-> Norm(1, 5),
     SecurityType |-> sec, SP |-> sp, SPLT |-> splt, Rating |-> rating,
     MarketValue |-> mv,
     Delta |-> Norm(1, 2), Prem |-> Num(25), DeltaXCV |-> Norm(1, 2), PremXCV |-> Num(25),
     ModDur |-> Num(2), EffectiveDuration |-> Num(1), OAD |-> Num(2), OAC |-> Num(3),
     InterestSensitivity |-> Num(-1), CreditSensitivity |-> Num(-2),
     ImpliedSpread |-> Num(150), ImpliedVol |-> Num(25), YearsToMat |-> Num(2),
     SPAjusted |-> IF isna(sp) THEN rating ELSE sp,
     RatingChiffre |-> NaN, CreditCategory |-> NoLabel,
     SensiEquity |-> NaN, ContribSensiEquity |-> NaN,
     SensiEquityXCV |-> NaN, ContribSensiEquityXCV |-> NaN,
     contrib_modified_duration |-> NaN, contrib_effective_duration |-> NaN,
     contrib_taux_sensi |-> NaN, contrib_credit_sensi |-> NaN,
     contrib_implied_spread |-> NaN,
     SensiBucket |-> NoLabel, VolBucket |-> NoLabel, MaturityBucket |-> NoLabel,
     Region |-> NoLabel, Style |-> NoLabel,
     EXPECTED_REPORT_DT |-> NA, EXPECTED_REPORT_TIME |-> NA, EARNING |-> NA]

PlainRow(sec) == NewRow("XS0000000001", sec, <<"B","B","B">>, NA, NA, Num(10))

\* rating cells as a spreadsheet can hold them: missing, the sentinels in
\* several spellings, blank and padded text, grades, and text that is no grade
RatingTexts ==
    { NA, <<>>, <<" ">>, <<"N","R">>, <<"n","r">>, <<" ","N","R">>,
      <<"#","N","/","A">>, <<"N","a","N">>, <<"N","o","n","e">>,
      <<"A">>, <<" ","B","B","+"," ">>, <<"A","A","A","-">>, <<"W","R">>, <<"D">> }

LowerRatingTexts == { NA, <<"n","r">>, <<"B","B","B","-">>, <<"C","C","C"," ">> }

RatingSecTypes == {"Convertible Bonds", "Cash", "Corporate Bonds"}

RatingRows ==
    { NewRow("XS0000000001", sec, sp, splt, rating, Num(10)) :
        sec \in RatingSecTypes, sp \in RatingTexts,
        splt \in LowerRatingTexts, rating \in LowerRatingTexts }
    \cup
    { NewRow("XS0000000001", sec, NA, splt, rating, Num(10)) :
        sec \in {"Convertible Bonds"}, splt \in RatingTexts, rating \in RatingTexts }

DeltaValues ==
    { NaN, Norm(-1, 2), Num(0), Norm(1, 4), Norm(3, 10), Norm(1, 2), Norm(3, 4),
      Num(1), Norm(11, 10), Norm(6, 5) }

PremValues == { NaN, Num(0), Num(100), Num(-20), Num(-100) }

VolValues ==
    { NaN, Num(-5), Num(0), Norm(1999, 100), Num(20), Num(25), Num(30), Num(35),
      Num(40), Num(45), Num(1000) }

YearsValues ==
    { NaN, Num(-1), Num(0), Norm(1, 2), Norm(999, 1000), Num(1), Num(2), Num(3),
      Num(4), Num(5), Num(30) }

BucketSecTypes == {"Convertible Bonds", "Common Stocks", "Cash"}

BucketRows ==
    { [PlainRow(sec) EXCEPT !.Delta = d, !.Prem = p] :
        sec \in BucketSecTypes, d \in DeltaValues, p \in PremValues }
    \cup
    { [PlainRow(sec) EXCEPT !.ImpliedVol = v, !.YearsToMat = y] :
        sec \in BucketSecTypes, v \in VolValues, y \in YearsValues }

\* security types with and without a registered default delta
SensiSecTypes ==
    {"Warrants", "Corporate Bonds", "Open-End Funds", "Currency Forwards", "Preferred Stocks"}

\* rows probing the delta default and the sensitivity formula
SensiRows ==
    { [PlainRow(sec) EXCEPT !.Delta = d, !.Prem = p, !.MarketValue = mv] :
        sec \in SensiSecTypes \cup {"Convertible Bonds", "Common Stocks"},
        d \in {NaN, Norm(3, 10), Num(1)}, p \in {NaN, Num(25)},
        mv \in {NaN, Num(10)} }

\* rows probing the interest-rate and credit sensitivities
RateRows ==
    { [PlainRow(sec) EXCEPT !.OAD = oad, !.OAC = oac,
                            !.InterestSensitivity = taux, !.CreditSensitivity = cred] :
        sec \in {"Convertible Bonds", "Corporate Bonds", "Common Stocks"},
        oad \in {NaN, Num(2)}, oac \in {NaN, Num(3)},
        taux \in {NaN, Num(-1)}, cred \in {NaN, Num(-2)} }

\* rows without a ticker
TickerRows ==
    { [PlainRow(sec) EXCEPT !.EqtyTicker = NA] :
        sec \in {"Convertible Bonds", "Corporate Bonds", "Cash"} }

GeoRows ==
    { [NewRow(isin, "Convertible Bonds", <<"B","B","B">>, NA, NA, Num(10))
         EXCEPT !.Cntry = c, !.IndustrySector = s] :
        isin \in {"XS0000000001", "US06744EDH71", "US29446YAC03", "FR001400R1R6"},
        c \in {"US", "JP", "ZZ"},
        s \in {"Technology", "Energy", "Financial", "Government"} }

\* positions of a fund: rated and unrated bonds, a stock, cash; two bonds
\* whose contribution has more than two decimals, one bond of unknown country
\* and theme, one without delta, a stock without delta, cash without ticker
FundRows ==
    { [NewRow("XS0000000001", "Convertible Bonds", <<"A">>, NA, NA, Num(40))
          EXCEPT !.Delta = Norm(1, 3)],
      [NewRow("XS0000000002", "Convertible Bonds", <<"B","B","B">>, NA, NA, Num(35))
          EXCEPT !.Delta = Norm(1, 3)],
      [NewRow("XS0000000003", "Convertible Bonds", <<"B">>, NA, NA, Num(25))
          EXCEPT !.Cntry = "ZZ", !.Theme = NoLabel],
      NewRow("XS0000000004", "Convertible Bonds", <<"B","B","B">>, NA, NA, Num(50)),
      [NewRow("XS0000000005", "Convertible Bonds", <<"B","B","B","-">>, NA, NA, Num(50))
          EXCEPT !.EqtyTicker = <<"UNK US">>],
      NewRow("XS0000000007", "Corporate Bonds", NA, NA, <<"B","B","B","-">>, Num(25)),
      [NewRow("XS0000000008", "Convertible Bonds", NA, NA, NA, Num(20))
          EXCEPT !.Delta = NaN],
      [NewRow("XS0000000009", "Common Stocks", NA, NA, NA, Num(50))
          EXCEPT !.Delta = NaN, !.Theme = "Energy Transition"],
      [NewRow("XS0000000010", "Cash", NA, NA, NA, Num(10))
          EXCEPT !.EqtyTicker = NA, !.Delta = NaN] }

\* one-row tables probing each per-row rule
SingleRowTables ==
    { <<r>> : r \in RatingRows \cup BucketRows \cup GeoRows \cup SensiRows \cup RateRows
                    \cup TickerRows }

\* tables of at most MaxRows distinct positions, in every order
FundTables ==
    UNION { {t \in [1..n -> FundRows] : \A i, j \in 1..n : t[i] = t[j] => i = j} :
              n \in 0..MaxRows }

\* the secondary rating column is present or absent for the whole table; an
\* absent column holds no value
ColumnAbsentOk(t) == \A i \in 1..Len(t) : t[i].SPLT = NA

\* the columns of a position that the positions source brings
PortColumns(r) == DOMAIN r \ ({"Theme", "Rating", "SPAjusted"} \cup DOMAIN NullData)

\* a rating date as the ratings source holds it
RatingDay == <<2024, 1, 15>>

\* four consistent sources (every position once in the analytics source, once
\* in the themes and ratings sources when it has a theme or an internal
\* rating) whose merge gives the table t
SourcesOf(t) ==
    [portfolio |-> [i \in 1..Len(t) |-> [c \in PortColumns(t[i]) |-> t[i][c]]],
     themes    |-> LET m == SelectSeq(t, LAMBDA r : r.Theme # NoLabel)
                   IN  [i \in 1..Len(m) |-> [ISIN |-> m[i].ISIN, Theme |-> m[i].Theme]],
     ovcv_data |-> [i \in 1..Len(t) |->
                      [c \in DOMAIN NullData |->
                          IF c = "Ticker" THEN <<t[i].ISIN, " Corp">> ELSE t[i][c]]],
     ratings   |-> LET m == SelectSeq(t, LAMBDA r : ~isna(r.Rating))
                   IN  [i \in 1..Len(m) |->
                          [ISIN |-> m[i].ISIN, Rating |-> m[i].Rating,
                           RatingDate |-> RatingDay]]]

\* the two positions of the probes of the merge: a bond without agency rating
\* and a rated bond
ProbeTable ==
    << [NewRow("XS0000000008", "Convertible Bonds", NA, NA, NA, Num(25))
           EXCEPT !.Delta = NaN],
       [NewRow("XS0000000001", "Convertible Bonds", <<"A">>, NA, NA, Num(40))
           EXCEPT !.Delta = Norm(1, 3)] >>

\* records of the ratings source: several of one identifier with a later and
\* an earlier date, the same date twice, no date, a date that does not parse;
\* one of an identifier the fund does not hold
RatingRecords ==
    { [ISIN |-> "XS0000000008", Rating |-> <<"A">>, RatingDate |-> RatingDay],
      [ISIN |-> "XS0000000008", Rating |-> <<"B","B">>, RatingDate |-> <<2023, 6, 30>>],
      [ISIN |-> "XS0000000008", Rating |-> <<"B","B","B">>, RatingDate |-> RatingDay],
      [ISIN |-> "XS0000000008", Rating |-> <<"B">>, RatingDate |-> NA],
      [ISIN |-> "XS0000000001", Rating |-> <<"C","C","C">>, RatingDate |-> <<2024, 13, 45>>],
      [ISIN |-> "XS0000000099", Rating |-> <<"A","A">>, RatingDate |-> <<2022, 12, 31>>] }

\* ratings sources of at most MaxRows distinct records, in every order
RatingTables ==
    UNION { {t \in [1..n -> RatingRecords] : \A i, j \in 1..n : t[i] = t[j] => i = j} :
              n \in 1..MaxRows }

\* theme sources: one theme per position, an identifier twice, an identifier
\* the fund does not hold
ThemeTables ==
    { << [ISIN |-> "XS0000000008", Theme |-> "Cloud"],
         [ISIN |-> "XS0000000008", Theme |-> "Energy Transition"] >>,
      << [ISIN |-> "XS0000000099", Theme |-> "Cloud"],
         [ISIN |-> "XS0000000001", Theme |-> "Cloud"] >> }

\* analytics sources: a ticker twice, a position without analytics
DataTables ==
    LET base == SourcesOf(ProbeTable).ovcv_data
    IN  { <<base[1], base[2], [base[1] EXCEPT !.ImpliedVol = Num(45)]>>,
          <<base[2]>> }

\* sources with repeated, missing and foreign identifiers
ProbeSources ==
    LET base == SourcesOf(ProbeTable)
    IN  {[base EXCEPT !.ratings = t] : t \in RatingTables}
        \cup {[base EXCEPT !.themes = t] : t \in ThemeTables}
        \cup {[base EXCEPT !.ovcv_data = t] : t \in DataTables}

\* the analyzer, its loader (with an open reference-data session) and its
\* calculator are constructed; nothing is loaded yet
Init ==
    /\ pc = "start"
    /\ rating_final = NA
    /\ df_input = <<>>
    /\ df = <<>>
    /\ df_complete = <<>>
    /\ results = <<>>
    /\ error = "none"
    /\ fetch_status = "none"
    /\ session = "open"
    /\ requests = <<>>
    /\ stops = 0
    /\ \/ /\ has_sp_lt = TRUE
          /\ files \in {SourcesOf(t) : t \in SingleRowTables \cup FundTables}
                        \cup ProbeSources
       \/ /\ has_sp_lt = FALSE
          /\ files \in {SourcesOf(t) : t \in {u \in SingleRowTables : ColumnAbsentOk(u)}}

Spec == Init /\ [][Next]_vars

(***************************************************************************)
(* Properties                                                              *)
(***************************************************************************)
Rows == 1..Len(df)

\* _calculate_ratings has run
RatingsDone ==
    pc \in {"ratings", "sensitivities", "buckets", "regions", "asset", "style", "done"}

\* the sentinels as the specification spells them
SentinelTexts ==
    { <<>>, <<"N","R">>, <<"#","N","/","A">>, <<"N","a","N">>, <<"N","o","n","e">> }

\* a rating cell is usable: present, and its text is no sentinel (spelling
\* compared without regard to letter case or surrounding blanks)
UsableRating(v) ==
    /\ v # NA
    /\ \A s \in SentinelTexts : upper(strip(v)) # upper(s)

\* the three sources of a row in priority order; an absent secondary column
\* gives no value
RatingSources(r) == <<r.SP, IF has_sp_lt THEN r.SPLT ELSE NA, r.Rating>>

\* C1: the rating of every row is resolved by a strict priority cascade:
\* the first usable source among primary 'S&P', secondary 'S&P LT Foreign
\* Currency Issuer Credit Rating' and internal 'Rating' gives the rating (its
\* text without surrounding blanks), and 'NR' is used only when none is
\* usable; a lower-priority source is never used when a higher one is usable.
\* (Observed on the rows that the later cash override leaves alone.)
C1_PriorityCascade ==
    RatingsDone =>
        \A i \in Rows :
            df[i].SecurityType # "Cash" =>
                LET src    == RatingSources(df[i])
                    usable == {k \in 1..3 : UsableRating(src[k])}
                IN  IF usable = {} THEN df[i].SPAjusted = TxtNR
                    ELSE \E k \in usable :
                            /\ \A j \in usable : k <= j
                            /\ df[i].SPAjusted = strip(src[k])

\* a row whose primary rating is a sentinel while the secondary and the
\* internal ratings are both usable and differ: the secondary one was taken
C1_Witness ==
    /\ RatingsDone
    /\ has_sp_lt
    /\ \E i \in Rows :
          /\ df[i].SecurityType # "Cash"
          /\ df[i].SP # NA
          /\ ~UsableRating(df[i].SP)
          /\ UsableRating(df[i].SPLT)
          /\ UsableRating(df[i].Rating)
          /\ strip(df[i].SPLT) # strip(df[i].Rating)
          /\ df[i].SPAjusted = strip(df[i].SPLT)

\* C2: after _calculate_ratings every 'Cash' row has resolved rating 'CASH'
\* whatever its three rating fields hold, and the override changes no row of
\* another security type: such a row keeps what the cascade resolved.
C2_CashOverride ==
    RatingsDone =>
        \A i \in Rows :
            IF df[i].SecurityType = "Cash"
            THEN df[i].SPAjusted = TxtCASH
            ELSE df[i].SPAjusted \in
                    {TxtNR} \cup {strip(RatingSources(df[i])[k]) : k \in 1..3}

\* a cash row carrying a usable primary rating was overridden, in a state
\* reached by the rating step
C2_Witness ==
    /\ pc = "ratings"
    /\ \E i \in Rows :
          /\ df[i].SecurityType = "Cash"
          /\ UsableRating(df[i].SP)
          /\ UsableRating(df[i].Rating)
          /\ df[i].SPAjusted = TxtCASH

\* C3: after calculate_all_metrics the resolved rating of every row is never
\* empty and is a letter grade of the AAA..D mapping, 'NR' or 'CASH', for any
\* input values of the three rating fields.
C3_RatingDomain ==
    pc = "done" =>
        \A i \in Rows :
            /\ df[i].SPAjusted # <<>>
            /\ df[i].SPAjusted \in Grades \cup {TxtNR, TxtCASH}

\* _calculate_buckets has run
BucketsDone == pc \in {"buckets", "regions", "asset", "style", "done"}

IsFinite(x) == x[2] > 0

\* x lies in the half-open interval [lo, hi)
InHalfOpen(x, lo, hi) == Le(lo, x) /\ Lt(x, hi)

\* C4: the sensitivity bucket is assigned by intervals closed on the left:
\* [0,0.25) -> 0-25, [0.25,0.50) -> 25-50, [0.50,0.75) -> 50-75,
\* [0.75,1.1) -> 75-100, so 0.25, 0.50 and 0.75 fall in the bucket that
\* starts at that value and 0 falls in 0-25.
C4_SensiLeftClosed ==
    BucketsDone =>
        \A i \in Rows :
            LET s == df[i].SensiEquity
            IN  /\ InHalfOpen(s, Num(0), Norm(1, 4)) => df[i].SensiBucket = "Bucket 0-25"
                /\ InHalfOpen(s, Norm(1, 4), Norm(1, 2)) => df[i].SensiBucket = "Bucket 25-50"
                /\ InHalfOpen(s, Norm(1, 2), Norm(3, 4)) => df[i].SensiBucket = "Bucket 50-75"
                /\ InHalfOpen(s, Norm(3, 4), Norm(11, 10)) => df[i].SensiBucket = "Bucket 75-100"

\* C5: bucket assignment is total in each of the three dimensions: every
\* non-null (finite) sensitivity, volatility and years-to-maturity gets one
\* of the four labels of its dimension, never a missing bucket.
C5_BucketsTotal ==
    BucketsDone =>
        \A i \in Rows :
            /\ IsFinite(df[i].SensiEquity) =>
                  df[i].SensiBucket \in {labels_equity[k] : k \in 1..4}
            /\ IsFinite(df[i].ImpliedVol) =>
                  df[i].VolBucket \in {labels_vol[k] : k \in 1..4}
            /\ IsFinite(df[i].YearsToMat) =>
                  df[i].MaturityBucket \in {labels_mat[k] : k \in 1..4}

\* C6: the volatility bucket is '<20%' below 20, '20-30%' on [20,30),
\* '30-40%' on [30,40) and '>40%' from 40 on; exactly 20, 30 and 40 land in
\* the higher bucket.
C6_VolBucket ==
    BucketsDone =>
        \A i \in Rows :
            LET v == df[i].ImpliedVol
            IN  /\ (IsFinite(v) /\ Lt(v, Num(20))) => df[i].VolBucket = "<20%"
                /\ InHalfOpen(v, Num(20), Num(30)) => df[i].VolBucket = "20-30%"
                /\ InHalfOpen(v, Num(30), Num(40)) => df[i].VolBucket = "30-40%"
                /\ (IsFinite(v) /\ Le(Num(40), v)) => df[i].VolBucket = ">40%"

\* rows with volatility exactly 20, 30 or 40 were bucketed, each in the
\* bucket that starts there
C6_Witness ==
    /\ pc = "buckets"
    /\ \E i \in Rows :
          \/ df[i].ImpliedVol = Num(20) /\ df[i].VolBucket = "20-30%"
          \/ df[i].ImpliedVol = Num(30) /\ df[i].VolBucket = "30-40%"
          \/ df[i].ImpliedVol = Num(40) /\ df[i].VolBucket = ">40%"

\* C7: the maturity bucket of a non-cash row is '<1 An' below 1 year,
\* '1 a 3 Ans' on [1,3), '3 a 5 Ans' on [3,5) and '>5 Ans' from 5 on, both
\* after the first bucketing and at the end; exactly 1.0 falls in '1 a 3 Ans'.
C7_MaturityBucket ==
    BucketsDone =>
        \A i \in Rows :
            df[i].SecurityType # "Cash" =>
                LET y == df[i].YearsToMat
                IN  /\ (IsFinite(y) /\ Lt(y, Num(1))) => df[i].MaturityBucket = "<1 An"
                    /\ InHalfOpen(y, Num(1), Num(3)) => df[i].MaturityBucket = "1 a 3 Ans"
                    /\ InHalfOpen(y, Num(3), Num(5)) => df[i].MaturityBucket = "3 a 5 Ans"
                    /\ (IsFinite(y) /\ Le(Num(5), y)) => df[i].MaturityBucket = ">5 Ans"

\* at the end of the pipeline a non-cash row with exactly 1.0 year to
\* maturity sits in '1 a 3 Ans'
C7_Witness ==
    /\ pc = "done"
    /\ \E i \in Rows :
          /\ df[i].SecurityType # "Cash"
          /\ df[i].YearsToMat = Num(1)
          /\ df[i].MaturityBucket = "1 a 3 Ans"

\* C8: after calculate_all_metrics every 'Cash' row has a near-zero
\* years-to-maturity and the '<1 An' maturity bucket, whatever the input
\* years-to-maturity was (missing or large included).
C8_CashMaturity ==
    pc = "done" =>
        \A i \in Rows :
            df[i].SecurityType = "Cash" =>
                /\ Lt(Num(0), df[i].YearsToMat)
                /\ Lt(df[i].YearsToMat, Norm(1, 100))
                /\ df[i].MaturityBucket = "<1 An"

\* a cash row whose input carried 5 years or more, or no maturity at all,
\* ends in '<1 An'
C8_Witness ==
    /\ pc = "done"
    /\ \E i \in Rows :
          /\ df[i].SecurityType = "Cash"
          /\ (IsNaN(df_input[i].YearsToMat) \/ Le(Num(5), df_input[i].YearsToMat))
          /\ df[i].MaturityBucket = "<1 An"

\* the rows of bond-like security types (Corporate Bonds, Convertible Bonds)
BondRows == SelectSeq(df, LAMBDA r : r.SecurityType \in BondLike)

\* every bond-like row has an ordinal rank and a weight, and there is weight
BondsAllRanked ==
    /\ \A i \in 1..Len(BondRows) :
          IsFinite(BondRows[i].RatingChiffre) /\ IsFinite(BondRows[i].MarketValue)
    /\ Lt(Num(0), SumSeq([i \in 1..Len(BondRows) |-> BondRows[i].MarketValue]))

\* sum(rank x weight) / sum(weight) over the bond-like rows
WeightedAverageRank ==
    Div(SumSeq([i \in 1..Len(BondRows) |->
                   Mul(BondRows[i].RatingChiffre, BondRows[i].MarketValue)]),
        SumSeq([i \in 1..Len(BondRows) |-> BondRows[i].MarketValue]))

\* C9: the fund-level rating is the letter grade whose rank is nearest to the
\* market-value-weighted average rank, sum(rank x weight) / sum(weight), of
\* the bond-like rows, also when their weights do not sum to 100.
C9_FundWeightedAverage ==
    (RatingsDone /\ BondsAllRanked) =>
        \E k \in Ranks :
            /\ rating_final = sp_rating_to_number[k]
            /\ \A y \in Ranks :
                  ~Lt(Abs(Sub(Num(y), WeightedAverageRank)),
                      Abs(Sub(Num(k), WeightedAverageRank)))

\* C10: when the weighted average rank is exactly halfway between two ranks
\* the fund-level rating is the lower of the two: an average of exactly 9.5
\* yields rank 9 ('BBB'), never rank 10.
C10_TieLowerRank ==
    (RatingsDone /\ BondsAllRanked) =>
        \A k \in Ranks :
            WeightedAverageRank = Norm(2 * k + 1, 2) =>
                rating_final = sp_rating_to_number[k]

ResultsBuilt == pc \in {"aggregated", "returned"}

\* the rows of the working table the top-holdings table ranks
HoldingRows == SelectSeq(df, LAMBDA r : r.SecurityType \in types_top_holdings)

\* S holds m rows of a column none of which is smaller than a row left out
\* (a missing value counts as smallest)
IsTopSelection(vals, S, m) ==
    /\ Cardinality(S) = m
    /\ \A i \in S : \A j \in (1..Len(vals)) \ S :
          IsNaN(vals[j]) \/ (~IsNaN(vals[i]) /\ Le(vals[j], vals[i]))

\* the sum of the cells of a column at the rows of S
SumOver(vals, S) ==
    LET idx == SelectSeq([i \in 1..Len(vals) |-> i], LAMBDA i : i \in S)
    IN  SumSeq([k \in 1..Len(idx) |-> vals[idx[k]]])

\* a top-N table over a column: N ranked rows (all of them when there are
\* fewer), then a 'TOTAL' row holding the sum of the column over the ranked
\* rows, to two decimals
IsTopTable(table, vals) ==
    LET m == IF top_holdings < Len(vals) THEN top_holdings ELSE Len(vals)
    IN  /\ Len(table) = m + 1
        /\ table[m + 1].LongName = "TOTAL"
        /\ \E S \in SUBSET (1..Len(vals)) :
              /\ IsTopSelection(vals, S, m)
              /\ table[m + 1].Value = round2(SumOver(vals, S))

\* C12: in the top-holdings table (ranked by 'Market Value (%)') and in the
\* top-contributors table (ranked by 'CONTRIB SENSI EQUITY') the appended
\* 'TOTAL' row is the sum of the ranked column over exactly the N rows
\* selected into the table (all rows when the working set has fewer than N),
\* not over the whole working set.
C12_TopTotal ==
    ResultsBuilt =>
        /\ IsTopTable(results[1].top_10_holdings, Column(HoldingRows, "MarketValue"))
        /\ IsTopTable(results[1].top_10_contrib_equity, Column(df, "ContribSensiEquity"))

\* a working set of more than N rows was ranked, and the total of the N
\* selected rows differs from the total of the whole column
C12_Witness ==
    /\ pc = "returned"
    /\ Len(df) > top_holdings
    /\ LET t == results[1].top_10_contrib_equity
       IN  /\ Len(t) = top_holdings + 1
           /\ t[Len(t)].Value # round2(SumSeq(Column(df, "ContribSensiEquity")))
           /\ t[Len(t)].Value # Num(0)
    /\ LET h == results[1].top_10_holdings
       IN  h[Len(h)].Value # round2(SumSeq(Column(HoldingRows, "MarketValue")))

\* the sum of the totals of a table given as group key -> total
RECURSIVE SumTotals(_)
SumTotals(f) ==
    IF DOMAIN f = {} THEN Num(0)
    ELSE LET k == CHOOSE x \in DOMAIN f : TRUE
         IN  Add(f[k], SumTotals([x \in (DOMAIN f) \ {k} |-> f[x]]))

\* the 'Total' column of a table given as group key -> row
TotalsOf(g) == [k \in DOMAIN g |-> g[k].Total]

\* no cell of the column is infinite
NoInf(vals) == \A i \in 1..Len(vals) : ~IsInf(vals[i])

\* the group totals of a table add up to the total of the aggregated column,
\* up to the two-decimal rounding of each group total
Conserves(f, vals) ==
    NoInf(vals) =>
        Le(Abs(Sub(SumTotals(f), SumSeq(vals))), Norm(5 * Cardinality(DOMAIN f), 1000))

\* the rows of the complete table the credit views aggregate
CreditRows == SelectSeq(df_complete, LAMBDA r : r.SecurityType \in types_credit)

CreditRatedRows == SelectSeq(CreditRows, LAMBDA r : r.SecurityType # "Cash")

\* C13: every groupby aggregation table (by sector, region, theme, style,
\* sensitivity bucket, volatility bucket, credit category, rating, maturity
\* bucket) conserves the total: the sum of its group totals equals the sum
\* of the aggregated column over the table it was computed from, also when
\* rows have a missing group key.
C13_GroupbyConserves ==
    ResultsBuilt =>
        LET res     == results[1]
            contrib == Column(df, "ContribSensiEquity")
            mv      == Column(CreditRows, "MarketValue")
        IN  /\ Conserves(res.contrib_by_sector, contrib)
            /\ Conserves(res.contrib_by_region, contrib)
            /\ Conserves(res.contrib_by_theme, contrib)
            /\ Conserves(res.contrib_by_style, contrib)
            /\ Conserves(TotalsOf(res.contrib_by_sensi_bucket), contrib)
            /\ Conserves(TotalsOf(res.contrib_by_vol_bucket), contrib)
            /\ Conserves(TotalsOf(res.credit_analysis.by_category), mv)
            /\ Conserves(TotalsOf(res.credit_analysis.by_rating),
                         Column(CreditRatedRows, "MarketValue"))
            /\ Conserves(TotalsOf(res.credit_analysis.by_maturity), mv)

\* _calculate_sensitivities has run and the working table still has the rows
\* of the loaded table, one for one
SensitivitiesDone == pc \in {"sensitivities", "buckets", "regions", "asset", "style", "done"}

\* C14: a row whose delta is missing and whose security type has a
\* registered default gets that default before the sensitivity is computed
\* (1 for Common Stocks and Warrants; 0 for Corporate Bonds, Cash, Open-End
\* Funds and Currency Forwards), and a row whose delta is present keeps it.
C14_DeltaDefault ==
    SensitivitiesDone =>
        \A i \in Rows :
            LET din    == df_input[i].Delta
                sec    == df_input[i].SecurityType
                prem   == df_input[i].Prem
                usable == IsFinite(prem) /\ prem # Num(-100)
            IN  /\ ~IsNaN(din) => df[i].Delta = din
                /\ (IsNaN(din) /\ sec \in {"Common Stocks", "Warrants"}) =>
                      /\ df[i].Delta = Num(1)
                      /\ usable => Mul(df[i].SensiEquity, Add(Num(100), prem)) = Num(100)
                /\ (IsNaN(din) /\ sec \in {"Corporate Bonds", "Cash", "Open-End Funds",
                                           "Currency Forwards"}) =>
                      /\ df[i].Delta = Num(0)
                      /\ usable => df[i].SensiEquity = Num(0)

\* a warrant loaded without delta got delta 1 and the sensitivity of delta 1
C14_Witness ==
    /\ pc = "sensitivities"
    /\ \E i \in Rows :
          /\ IsNaN(df_input[i].Delta)
          /\ df_input[i].SecurityType = "Warrants"
          /\ df[i].Delta = Num(1)
          /\ df[i].SensiEquity = Norm(4, 5)

\* the security types with a registered default delta
DefaultDeltaTypes ==
    {"Common Stocks", "Warrants", "Corporate Bonds", "Cash", "Open-End Funds",
     "Currency Forwards"}

\* the rows of the working table that have a delta once the defaults are
\* applied
RowsWithDelta == SelectSeq(df, LAMBDA r : ~IsNaN(r.Delta))

\* C15: a row whose delta is missing and whose security type has no
\* registered default (e.g. Convertible Bonds) keeps a missing delta and a
\* missing sensitivity, its contribution is 0 and no error is raised; the
\* portfolio total contribution equals the sum over the other rows.
C15_MissingDeltaNoDefault ==
    /\ SensitivitiesDone =>
          \A i \in Rows :
              (IsNaN(df_input[i].Delta) /\ df_input[i].SecurityType \notin DefaultDeltaTypes) =>
                  /\ IsNaN(df[i].Delta)
                  /\ IsNaN(df[i].SensiEquity)
                  /\ df[i].ContribSensiEquity = Num(0)
                  /\ error = "none"
    /\ ResultsBuilt =>
          /\ results[1].contrib_equity_sensi =
                SumSeq(Column(RowsWithDelta, "ContribSensiEquity"))
          /\ error = "none"

\* a run returned results for a working table holding a convertible without
\* delta next to contributing rows: the total is theirs
C15_Witness ==
    /\ pc = "returned"
    /\ \E i \in Rows :
          /\ df[i].SecurityType = "Convertible Bonds"
          /\ IsNaN(df[i].Delta)
          /\ IsNaN(df[i].SensiEquity)
          /\ df[i].ContribSensiEquity = Num(0)
    /\ Len(RowsWithDelta) >= 2
    /\ Lt(Num(0), results[1].contrib_equity_sensi)

\* the cells of a column added up one after the other
RECURSIVE PlainSum(_)
PlainSum(vals) ==
    IF Len(vals) = 0 THEN Num(0) ELSE Add(vals[1], PlainSum(Tail(vals)))

\* C16: for every row whose delta and premium are present the sensitivity is
\* delta / (1 + premium/100) and the contribution is sensitivity x
\* market-value percentage; the portfolio-level contribution is the plain sum
\* of the row contributions of the working set.
C16_SensitivityFormula ==
    /\ SensitivitiesDone =>
          \A i \in Rows :
              LET delta == df[i].Delta
                  prem  == df[i].Prem
                  mv    == df[i].MarketValue
                  sensi == df[i].SensiEquity
              IN  (IsFinite(delta) /\ IsFinite(prem)) =>
                      IF prem # Num(-100)
                      THEN /\ IsFinite(sensi)
                           /\ Mul(sensi, Add(Num(100), prem)) = Mul(delta, Num(100))
                           /\ IsFinite(mv) => df[i].ContribSensiEquity = Mul(sensi, mv)
                      ELSE \/ Lt(Num(0), delta) /\ sensi = PosInf
                           \/ Lt(delta, Num(0)) /\ sensi = NegInf
                           \/ delta = Num(0) /\ IsNaN(sensi)
    /\ ResultsBuilt =>
          results[1].contrib_equity_sensi = PlainSum(Column(df, "ContribSensiEquity"))

\* a run returned the sum of the contributions of several rows, one of them
\* delta 1/3 at premium 25 and weight 40: sensitivity 4/15, contribution 32/3
C16_Witness ==
    /\ pc = "returned"
    /\ Len(df) >= 2
    /\ \E i \in Rows :
          /\ df[i].Delta = Norm(1, 3)
          /\ df[i].Prem = Num(25)
          /\ df[i].MarketValue = Num(40)
          /\ df[i].SensiEquity = Norm(4, 15)
          /\ df[i].ContribSensiEquity = Norm(32, 3)
          /\ Lt(df[i].ContribSensiEquity, results[1].contrib_equity_sensi)

\* the opposite of a cell, a missing cell staying missing
Opposite(x) == IF IsNaN(x) THEN NaN ELSE Sub(Num(0), x)

\* C17: for every row that is not a 'Convertible Bonds' row the interest-rate
\* sensitivity is -OAD and the credit sensitivity is -OAC, replacing whatever
\* the input supplied; for 'Convertible Bonds' rows both are the supplied
\* fields, unchanged.
C17_RateCreditSensitivity ==
    SensitivitiesDone =>
        \A i \in Rows :
            IF df_input[i].SecurityType # "Convertible Bonds"
            THEN /\ df[i].InterestSensitivity = Opposite(df_input[i].OAD)
                 /\ df[i].CreditSensitivity = Opposite(df_input[i].OAC)
            ELSE /\ df[i].InterestSensitivity = df_input[i].InterestSensitivity
                 /\ df[i].CreditSensitivity = df_input[i].CreditSensitivity

\* a corporate bond supplied with sensitivities -1 and -2 carries -OAD = -2
\* and -OAC = -3 after the step
C17_Witness ==
    /\ pc = "sensitivities"
    /\ \E i \in Rows :
          /\ df_input[i].SecurityType = "Corporate Bonds"
          /\ df_input[i].InterestSensitivity = Num(-1)
          /\ df_input[i].CreditSensitivity = Num(-2)
          /\ df[i].InterestSensitivity = Num(-2)
          /\ df[i].CreditSensitivity = Num(-3)

\* C18: when the batch reference-data call fails entirely the failure is
\* fatal for the run: run_full_analysis aborts with an error and returns no
\* results, and never continues with empty or defaulted reference data.
C18_FetchFailureFatal ==
    fetch_status = "failed" =>
        /\ pc \in {"failing", "raised"}
        /\ error # "none"
        /\ results = <<>>

\* the error travelling up is the failure to read one of the four sources
LoadFailed == \E k \in 1..Len(Sources) : error = Sources[k]

\* C19: when any of the four required input sources (positions, themes,
\* analytics fields, internal ratings) is missing or unreadable,
\* run_full_analysis aborts by raising the error: it returns no results
\* mapping, computes no metrics and no aggregation table, and performs no
\* reference-data fetch.
C19_LoadFailureAborts ==
    LoadFailed =>
        /\ pc \in {"failing", "raised"}
        /\ results = <<>>
        /\ df = <<>>
        /\ df_input = <<>>
        /\ df_complete = <<>>
        /\ rating_final = NA
        /\ fetch_status = "none"

\* a run whose themes source could not be read has ended by raising
C19_Witness ==
    /\ pc = "raised"
    /\ error = "themes"
    /\ files.portfolio # <<>>
    /\ results = <<>>

\* the working table has been filtered
Filtered == pc \in {"filtered", "aggregated", "returned"}

\* the number of positions a credit view counts, all groups together
RECURSIVE SumCounts(_)
SumCounts(g) ==
    IF DOMAIN g = {} THEN 0
    ELSE LET k == CHOOSE x \in DOMAIN g : TRUE
         IN  g[k].Number_of_positions + SumCounts([x \in (DOMAIN g) \ {k} |-> g[x]])

\* the rows of the complete table of one security type that carry a weight
WeightedRowsOfType(sec) ==
    {i \in 1..Len(df_complete) :
        df_complete[i].SecurityType = sec /\ ~IsNaN(df_complete[i].MarketValue)}

\* the working table is the complete table restricted to the three allowed
\* types, and the credit views count the corporate bonds, convertibles and
\* cash of the complete table
C20_State ==
    /\ Filtered =>
          df = SelectSeq(df_complete,
                         LAMBDA r : r.SecurityType \in
                             {"Convertible Bonds", "Common Stocks", "Warrants"})
    /\ ResultsBuilt =>
          LET by_category == results[1].credit_analysis.by_category
          IN  /\ SumCounts(by_category) =
                    Cardinality(WeightedRowsOfType("Corporate Bonds")
                                \cup WeightedRowsOfType("Convertible Bonds")
                                \cup WeightedRowsOfType("Cash"))
              /\ WeightedRowsOfType("Cash") # {} =>
                    /\ "Cash" \in DOMAIN by_category
                    /\ by_category["Cash"].Number_of_positions =
                          Cardinality(WeightedRowsOfType("Cash"))

\* the complete table is the whole output of calculate_all_metrics, and no
\* later step, the filter included, changes it
C20_Step ==
    /\ pc = "done" => df_complete' = df
    /\ pc \in {"copied", "filtered", "aggregated"} => df_complete' = df_complete

\* C20: after run_full_analysis df_complete holds every row produced by
\* calculate_all_metrics while df holds exactly the rows whose security type
\* is Convertible Bonds, Common Stocks or Warrants; filtering the working
\* table leaves the complete table unchanged, and the credit analysis is
\* computed from the complete table, so it includes Corporate Bonds and Cash.
C20_CompleteAndFiltered == [](C20_State) /\ [][C20_Step]_vars

\* a run returned with a corporate bond and cash in the complete table, both
\* filtered out of the working table and both counted by the credit views
C20_Witness ==
    /\ pc = "returned"
    /\ WeightedRowsOfType("Corporate Bonds") # {}
    /\ WeightedRowsOfType("Cash") # {}
    /\ Len(df) >= 1
    /\ Len(df) < Len(df_complete)
    /\ \A i \in Rows : df[i].SecurityType \notin {"Corporate Bonds", "Cash"}
    /\ SumCounts(results[1].credit_analysis.by_category) > Len(df)

\* the records of the ratings source for an identifier
RecordsOf(isin) ==
    {files.ratings[k] : k \in {n \in 1..Len(files.ratings) : files.ratings[n].ISIN = isin}}

\* datetime a is a date and b is none or an earlier one
MoreRecent(a, b) == a # NaT /\ (b = NaT \/ a[1] > b[1])

\* the internal ratings the merged rows of an identifier carry
RatingsCarried(isin) ==
    {<<df[j].Rating, df[j].RatingDate>> : j \in {n \in 1..Len(df) : df[n].ISIN = isin}}

\* C21: once the internal ratings are loaded and joined, a position carries
\* at most one rating record of its identifier, and that record has the most
\* recent rating date among the identifier's records in the source, whatever
\* the source holds, missing and unparseable dates included.
C21_MostRecentRatingKept ==
    pc = "merged" =>
        \A i \in 1..Len(df) :
            RecordsOf(df[i].ISIN) # {} =>
                /\ Cardinality(RatingsCarried(df[i].ISIN)) = 1
                /\ \E r \in RecordsOf(df[i].ISIN) :
                      /\ r.Rating = df[i].Rating
                      /\ to_datetime(r.RatingDate) = df[i].RatingDate
                /\ \A r \in RecordsOf(df[i].ISIN) :
                      ~MoreRecent(to_datetime(r.RatingDate), df[i].RatingDate)

\* C28: the merged table has exactly one row per row of the positions source,
\* in the same order and with the same identifiers, whatever the themes,
\* analytics and ratings sources hold (an identifier listed more than once,
\* identifiers missing or foreign to the fund).
C28_JoinKeepsPositions ==
    pc = "merged" =>
        /\ Len(df) = Len(files.portfolio)
        /\ \A i \in 1..Len(df) : df[i].ISIN = files.portfolio[i].ISIN

\* calculate_all_metrics is running or has returned
InCalculator ==
    pc \in {"corrected", "ratings", "sensitivities", "buckets", "regions", "asset",
            "style", "done"}

\* the country codes and sector names the two dictionaries list
MappedCountries ==
    {"BE", "DE", "ES", "FR", "GB", "IT", "LU", "NL", "EU", "CH", "CA", "US", "CN", "KR",
     "NZ", "TW", "HK", "MX", "JP"}

MappedSectors ==
    {"Technology", "HealthCare", "Communications", "Basic Materials", "Industrial",
     "Energy", "Consumer, Cyclical", "Financial", "Utilities", "Consumer, Non-cyclical"}

\* C22: data-quality problems never drop rows: through every step of
\* calculate_all_metrics the table has exactly the rows of its input (same
\* count, same identifiers in the same order), also when rows resolve to
\* 'NR', have an unmapped country or sector, or miss numeric fields; in the
\* returned table the unmapped rows carry a missing region or style.
C22_RowsRetained ==
    InCalculator =>
        /\ Len(df) = Len(df_input)
        /\ \A i \in 1..Len(df) : df[i].ISIN = df_input[i].ISIN
        /\ pc = "done" =>
              \A i \in 1..Len(df) :
                  /\ df[i].Cntry \notin MappedCountries => df[i].Region = NoLabel
                  /\ df[i].IndustrySector \notin MappedSectors => df[i].Style = NoLabel

\* a returned table of several rows with a row resolved to 'NR' that has no
\* delta, and a row of unmapped country
C22_Witness ==
    /\ pc = "done"
    /\ Len(df) > 1
    /\ \E i, j \in 1..Len(df) :
          /\ df[i].SPAjusted = TxtNR
          /\ df_input[i].Delta = NaN
          /\ df[j].Cntry = "ZZ"
          /\ df[j].Region = NoLabel

\* a resolved rating of rank BBB- (the tenth grade) or better; the list of
\* investment-grade ratings also names 'AAA-', a label without rank
InvestmentGrade(rating) ==
    \/ \E k \in 1..10 : sp_rating_to_number[k] = rating
    \/ rating = <<"A","A","A","-">>

\* C23: the credit category of a row is 'Cash' exactly when its security
\* type is Cash; for any other row it is 'Investment Grade' exactly when the
\* resolved rating is BBB- or better, 'Not Rated' exactly when the resolved
\* rating is 'NR' or 'D', and 'High Yield' in every other case.
C23_CreditCategory ==
    RatingsDone =>
        \A i \in 1..Len(df) :
            LET r == df[i]
            IN  /\ (r.CreditCategory = "Cash") <=> (r.SecurityType = "Cash")
                /\ r.SecurityType # "Cash" =>
                      /\ (r.CreditCategory = "Investment Grade")
                            <=> InvestmentGrade(r.SPAjusted)
                      /\ (r.CreditCategory = "Not Rated")
                            <=> (r.SPAjusted \in {<<"N","R">>, <<"D">>})
                      /\ (r.CreditCategory = "High Yield")
                            <=> (/\ ~InvestmentGrade(r.SPAjusted)
                                 /\ r.SPAjusted \notin {<<"N","R">>, <<"D">>})

\* a bond resolved to 'D' is categorised 'Not Rated'
C23_Witness ==
    /\ RatingsDone
    /\ \E i \in 1..Len(df) :
          /\ df[i].SecurityType = "Convertible Bonds"
          /\ df[i].SPAjusted = <<"D">>
          /\ df[i].CreditCategory = "Not Rated"

\* the ticker of a row was sent to the service
Requested(r) == r.EqtyTicker \notin {NA, <<"nan", " Equity">>}

\* C24: when the batch request names a security the service does not know,
\* the load goes on without error; the rows of that security get null
\* reference fields (date and time) and the rows of every other requested
\* security get the values the service answered.
C24_UnknownSecurityTolerated ==
    (fetch_status = "ok" /\ pc \notin {"start", "merged"}) =>
        /\ error = "none"
        /\ pc = "loaded" =>
              \A i \in 1..Len(df) :
                  IF df[i].EqtyTicker = <<"UNK US", " Equity">>
                  THEN /\ df[i].EXPECTED_REPORT_DT = NA
                       /\ df[i].EXPECTED_REPORT_TIME = NA
                  ELSE Requested(df[i]) =>
                          /\ df[i].EXPECTED_REPORT_DT = <<"2026-01-15">>
                          /\ df[i].EXPECTED_REPORT_TIME = <<"Aft-mkt">>

\* a loaded table with a row of the unknown security and a row of a known one
C24_Witness ==
    /\ pc = "loaded"
    /\ fetch_status = "ok"
    /\ error = "none"
    /\ \E i, j \in 1..Len(df) :
          /\ df[i].EqtyTicker = <<"UNK US", " Equity">>
          /\ df[i].EXPECTED_REPORT_DT = NA
          /\ df[j].EqtyTicker = <<"TCK US", " Equity">>
          /\ df[j].EXPECTED_REPORT_DT = <<"2026-01-15">>

\* the distinct non-empty tickers of the loaded table
TickersOf(t) == {t[i].EqtyTicker : i \in {n \in 1..Len(t) : Requested(t[n])}}

C25_State ==
    /\ Len(requests) <= 1
    /\ pc \in {"start", "merged"} => requests = <<>>
    /\ requests # <<>> => requests[1] = TickersOf(df_input) /\ requests[1] # {}
    /\ fetch_status = "ok" => Len(requests) = 1

C25_Step == requests' # requests => (pc = "merged" /\ pc' = "loaded")

\* C25: a run sends at most one request to the reference-data service: one
\* batched request carrying every distinct non-empty equity ticker of the
\* merged table, sent in the enrichment step, after the merge and before
\* any metric is computed.
C25_SingleBatchedRequest == [](C25_State) /\ [][C25_Step]_vars

\* one request carrying two distinct tickers of a table of three rows
C25_Witness ==
    /\ pc = "loaded"
    /\ Len(df) = 3
    /\ Len(requests) = 1
    /\ requests[1] = { <<"TCK US", " Equity">>, <<"TCK US">> }

\* control is back with the caller of run_full_analysis
ControlReturned == pc \in {"returned", "raised"}

C27_State ==
    /\ ControlReturned => (session = "closed" /\ stops = 1)
    /\ ~ControlReturned => (session = "open" /\ stops = 0)

C27_Step == session = "closed" => requests' = requests

\* C27: on every execution of run_full_analysis, whether it returns its
\* results or raises at any stage, the reference-data session has been
\* stopped exactly once when control is back with the caller, not before
\* the run is over, and no request is sent once the session is closed.
C27_SessionClosedOnce == [](C27_State) /\ [][C27_Step]_vars

\* a run that raised while enriching, after a successful merge, has stopped
\* the session once
C27_Witness ==
    /\ pc = "raised"
    /\ error = "EARNING"
    /\ session = "closed"
    /\ stops = 1

\* _calculate_regions, respectively _calculate_style, has run
RegionsDone ==
    pc \in {"regions", "asset", "style", "done", "copied", "filtered", "aggregated",
            "returned"}

StyleDone == pc \in {"style", "done", "copied", "filtered", "aggregated", "returned"}

\* the one region of each country code and the one style of each sector name
\* that the explored tables hold, the same in every run
RegionOfCode ==
    [c \in {"US", "JP", "FR", "ZZ"} |->
        CASE c = "US" -> "America"
          [] c = "JP" -> "Japan"
          [] c = "FR" -> "Europe"
          [] c = "ZZ" -> NoLabel]

StyleOfSector ==
    [x \in {"Technology", "Energy", "Industrial", "Financial", "Government"} |->
        CASE x = "Technology" -> "Growth"
          [] x \in {"Energy", "Industrial"} -> "Cyclical"
          [] x = "Financial" -> "Value"
          [] x = "Government" -> NoLabel]

\* C26: region and style are pure functions of the code: in every run and
\* for every row, the region is the one fixed region of the row's country
\* code and the style the one fixed style of its sector name, whatever the
\* other columns of the row and the other rows of the table; so two rows
\* with the same code always agree.
C26_RegionStylePure ==
    /\ RegionsDone =>
          \A i \in 1..Len(df) :
              /\ df[i].Cntry \in DOMAIN RegionOfCode
              /\ df[i].Region = RegionOfCode[df[i].Cntry]
    /\ StyleDone =>
          \A i \in 1..Len(df) :
              /\ df[i].IndustrySector \in DOMAIN StyleOfSector
              /\ df[i].Style = StyleOfSector[df[i].IndustrySector]

\* two rows of the same country that differ in security type and
\* identifier carry the same region
C26_Witness ==
    /\ pc = "done"
    /\ \E i, j \in 1..Len(df) :
          /\ df[i].Cntry = df[j].Cntry
          /\ df[i].SecurityType = "Cash"
          /\ df[j].SecurityType = "Convertible Bonds"
          /\ df[i].ISIN # df[j].ISIN
          /\ df[i].Region = "America"
          /\ df[j].Region = "America"

\* the bond-like rows whose resolved rating has a rank
RankedBondRows ==
    SelectSeq(df, LAMBDA r : /\ r.SecurityType \in {"Corporate Bonds", "Convertible Bonds"}
                             /\ ~IsNaN(r.RatingChiffre))

\* the sum of rank x weight / 100 over the ranked bond-like rows alone
RankedSum ==
    PlainSum([i \in 1..Len(RankedBondRows) |->
                Div(Mul(RankedBondRows[i].RatingChiffre, RankedBondRows[i].MarketValue),
                    Num(100))])

\* C29: the fund-level rating _calculate_ratings sets is always one of the
\* 22 letter grades; it is 'AAA' when no bond-like row has a resolved rating with a rank (no
\* bond-like row at all, or all of them 'NR'); and a bond-like row whose
\* rating has no rank contributes nothing: the rating is a grade nearest to
\* the sum over the ranked bond-like rows alone, so adding an unranked row
\* never changes it.
C29_UnrankedContributeNothing ==
    pc = "ratings" =>
        /\ RankedBondRows = <<>> => rating_final = <<"A","A","A">>
        /\ LET total == RankedSum
           IN  \E k \in 1..22 :
                  /\ rating_final = sp_rating_to_number[k]
                  /\ \A y \in 1..22 :
                        ~Lt(Abs(Sub(Num(y), total)), Abs(Sub(Num(k), total)))

\* a rated table with a ranked bond and a weighted bond without rank, whose
\* fund-level rating is not 'AAA'
C29_Witness ==
    /\ pc = "ratings"
    /\ rating_final # <<"A","A","A">>
    /\ \E i, j \in 1..Len(df) :
          /\ df[i].SecurityType = "Convertible Bonds"
          /\ IsNaN(df[i].RatingChiffre)
          /\ Lt(Num(0), df[i].MarketValue)
          /\ df[j].SecurityType = "Convertible Bonds"
          /\ ~IsNaN(df[j].RatingChiffre)

\* the rows of the returned top-holdings table, without its 'TOTAL' row
ShownHoldings ==
    LET h == results[1].top_10_holdings
    IN  {h[k] : k \in 1..(Len(h) - 1)}

\* the long names of the positions of the complete table whose type is in S
NamesOfTypes(S) ==
    {df_complete[i].LongName : i \in {n \in 1..Len(df_complete) :
                                          df_complete[n].SecurityType \in S}}

\* C30: the top-holdings table run_full_analysis returns only holds
\* positions of type Convertible Bonds, Common Stocks or Warrants: a
\* Corporate Bonds or Open-End Funds position never appears in it, however
\* large its market value, because the table is built from the working
\* table after the security-type filter.
C30_TopHoldingsFiltered ==
    ResultsBuilt =>
        \A row \in ShownHoldings :
            /\ row.LongName \in NamesOfTypes({"Convertible Bonds", "Common Stocks", "Warrants"})
            /\ row.LongName \notin NamesOfTypes({"Corporate Bonds", "Open-End Funds"})

\* a returned top-holdings table that shows a position smaller than a
\* Corporate Bonds position of the complete table
C30_Witness ==
    /\ pc = "returned"
    /\ \E row \in ShownHoldings :
          \E i \in 1..Len(df_complete) :
              /\ df_complete[i].SecurityType = "Corporate Bonds"
              /\ Lt(row.Value, df_complete[i].MarketValue)

====
